---- MODULE Spec2Model ----
(***************************************************************************)
(* The retrieval-orchestration pipeline of agents/graph/graph.py: the      *)
(* LangGraph state graph Router -> Planner -> Retriver -> Answer, the      *)
(* node functions, the tool-calling sub-agent of the Retriever, and the    *)
(* two callers of the compiled graph (streamlit_app.process_query and      *)
(* agents/main.main).                                                      *)
(*                                                                         *)
(* The language model, the tool server and the text-to-speech service are  *)
(* external: every value they can hand back is drawn from a small set, and *)
(* every call to the language model may raise.                             *)
(*                                                                         *)
(* Further down: the web search tool of agents/tools/web_search.py         *)
(* (WebSpec), the tool server of agents/mcp_server.py (ServerSpec) and the *)
(* offline index build (IndexSpec). Each specification moves its own       *)
(* variables and leaves the others at rest.                                *)
(***************************************************************************)
EXTENDS Integers, Sequences, FiniteSets, TLC

(*************************** bounds of the model ***************************)
\* How often one node may be started in one run (the code never needs 2).
MaxPasses == 2
\* Tool calls the sub-agent's model may request during one Retriever stage.
MaxToolCalls == 2

(******************************* vocabulary ********************************)
START == "__start__"
END == "__end__"

Nodes == {"Router", "Planner", "Retriver", "Answer"}

\* AgentState's annotated keys.
Keys == {"input", "response", "done", "intent", "plan", "knowledge",
         "retrieved_context"}

\* Python's None, where a string field may hold it.
NoneValue == "<None>"

\* The defaults of the state.get(key, default) reads.
NoIntent == "No intent provided"
NoPlan == "No plan provided"
NoQuery == "No query provided"
NoKnowledge == "No knowledge provided"
NoResponse == "No response generated"

\* The sentinels the Retriever's prompt asks the sub-agent for.
NotApplicable == "Retrieval not applicable."
NoDataFound == "No data found."

RagTool == "rag_search_tool"
WebTool == "web_search_tool"
Tools == {RagTool, WebTool}

(********************* what the external services return *******************)
Queries == {"stuffed animal under $30", "latest price right now"}
IntentTexts == {"* Task: ..."}
\* A plan is free text; it is told apart here by its Data Source line.
PlanTexts == {"private", "both", "none"}
\* The final message of the sub-agent.
FinalTexts == {NotApplicable, NoDataFound, "* Retrieved data: ...", ""}
AnswerTexts == {"* Final Answer: ..."}
\* The raw payload of a tool response.
Payloads(tool) ==
    IF tool = RagTool THEN {"{products: [...]}"}
    ELSE {"{results: [...]}", "{results: [], note: ...}"}

VARIABLES
    caller,       \* which entry point runs the graph
    use_tts,      \* process_query's use_tts argument
    query,        \* the text handed to app.ainvoke as "input"
    phase,        \* of the graph run: idle, running, end, aborted
    state,        \* the pipeline state: [present: set of keys, vals: record]
    scheduled,    \* the nodes of the current step
    status,       \* per node: idle, running, returned
    writes,       \* per node: the update it returned in the current step
    started,      \* per node: how often it was started
    finished,     \* per node: how often it returned
    prompt,       \* per node: what it interpolated into its prompt
    messages,     \* the sub-agent's message list
    calls,        \* the tool invocations of the Retriever stage, as issued
    outcome,      \* what the caller ended with
    tts,          \* text-to-speech: none, played, failed
    SERPER_API_KEY, \* web_search.py's module global, read once at import
    web,          \* one call of web_search_tool: arguments, request, outcome
    srv,          \* the tool server: per connection, the request in hand
    idx           \* the offline index build and the vector collection

pipeVars == <<caller, use_tts, query, phase, state, scheduled, status, writes,
              started, finished, prompt, messages, calls, outcome, tts>>

toolVars == <<SERPER_API_KEY, web, srv, idx>>

vars == <<pipeVars, toolVars>>

(************************* the pipeline state ******************************)
BlankVals ==
    [input |-> "", response |-> "", done |-> FALSE, intent |-> "",
     plan |-> "", knowledge |-> "", retrieved_context |-> <<>>]

EmptyState == [present |-> {}, vals |-> BlankVals]

\* A node's return value: a dict with the keys `keys`.
NoUpdate == [keys |-> {}, vals |-> BlankVals]

\* state.get(key, default) for a string-valued key.
Get(st, key, default) ==
    IF key \in st.present THEN st.vals[key] ELSE default

\* bool(state.get("done")): a missing key reads as None, which is falsy.
GetDone(st) == "done" \in st.present /\ st.vals.done

\* The graph writes each returned key into its channel; other keys keep
\* their value.
Merge(st, up) ==
    [present |-> st.present \cup up.keys,
     vals |-> [k \in Keys |-> IF k \in up.keys THEN up.vals[k]
                              ELSE st.vals[k]]]

RECURSIVE MergeAll(_, _, _)
MergeAll(st, ws, ns) ==
    IF ns = {} THEN st
    ELSE LET n == CHOOSE x \in ns : TRUE
         IN  MergeAll(Merge(st, ws[n]), ws, ns \ {n})

(***************************** node functions *****************************)
\* What a node interpolates into its prompt: the query and one state field.
router_prompt(st) == [query |-> st.vals.input, arg |-> ""]

planner_prompt(st) ==
    [query |-> Get(st, "input", NoQuery), arg |-> Get(st, "intent", NoIntent)]

retrieve_prompt(st) ==
    [query |-> Get(st, "input", NoQuery), arg |-> Get(st, "plan", NoPlan)]

answer_prompt(st) ==
    [query |-> st.vals.input, arg |-> Get(st, "knowledge", NoKnowledge)]

NoPrompt == [query |-> "", arg |-> ""]

PromptOf(n, st) ==
    CASE n = "Router" -> router_prompt(st)
      [] n = "Planner" -> planner_prompt(st)
      [] n = "Retriver" -> retrieve_prompt(st)
      [] OTHER -> answer_prompt(st)

\* state["input"] raises KeyError when the key is missing.
ReadsInputByIndex(n) == n \in {"Router", "Answer"}

\* router_node also resetting the termination flag.
router_node_sets_done(st, content) ==
    [keys |-> {"intent", "done"},
     vals |-> [BlankVals EXCEPT !.intent = content, !.done = FALSE]]

router_node(st, content) ==
    [keys |-> {"intent"}, vals |-> [BlankVals EXCEPT !.intent = content]]

planner_node(st, content) ==
    [keys |-> {"plan"}, vals |-> [BlankVals EXCEPT !.plan = content]]

\* answer_critic_node asking for another pass.
answer_critic_node_not_done(st, content) ==
    [keys |-> {"response", "done"},
     vals |-> [BlankVals EXCEPT !.response = content, !.done = FALSE]]

answer_critic_node(st, content) ==
    [keys |-> {"response", "done"},
     vals |-> [BlankVals EXCEPT !.response = content, !.done = TRUE]]

(* The sub-agent's messages. *)
HumanMessage(text) == [type |-> "human", content |-> text, tool_calls |-> <<>>]
AIMessage(text, tcs) == [type |-> "ai", content |-> text, tool_calls |-> tcs]
ToolMessage(text) == [type |-> "tool", content |-> text, tool_calls |-> <<>>]
NoMessage == [type |-> "none", content |-> NoneValue, tool_calls |-> <<>>]

\* The last AIMessage of the list, or None.
get_final_ai_message(msgs) ==
    LET ai == {i \in 1..Len(msgs) : msgs[i].type = "ai"}
    IN  IF ai = {} THEN NoMessage
        ELSE msgs[CHOOSE i \in ai : \A j \in ai : j <= i]

\* get_tool_messages keeping every message the agent produced.
get_tool_messages_unfiltered(msgs) ==
    SelectSeq(msgs, LAMBDA m : m.type # "human")

\* The ToolMessages of the list, in list order.
get_tool_messages(msgs) == SelectSeq(msgs, LAMBDA m : m.type = "tool")

retrieve_node(msgs) ==
    LET final_ai == get_final_ai_message(msgs)
        tool_msgs == get_tool_messages(msgs)
    IN  [keys |-> {"knowledge", "retrieved_context"},
         vals |-> [BlankVals EXCEPT
                     !.knowledge = IF final_ai # NoMessage
                                   THEN final_ai.content ELSE NoneValue,
                     !.retrieved_context =
                         [i \in 1..Len(tool_msgs) |-> tool_msgs[i].content]]]

\* The text the language model can answer a simple node's prompt with.
LLMTexts(n) ==
    CASE n = "Router" -> IntentTexts
      [] n = "Planner" -> PlanTexts
      [] OTHER -> AnswerTexts

NodeFn(n, st, content) ==
    CASE n = "Router" -> router_node(st, content)
      [] n = "Planner" -> planner_node(st, content)
      [] OTHER -> answer_critic_node(st, content)

(******************************* the graph *********************************)
\* Edges with a second edge out of START, straight to Planner.
EdgesStartFansOut ==
    {<<START, "Router">>, <<START, "Planner">>, <<"Router", "Planner">>,
     <<"Planner", "Retriver">>, <<"Retriver", "Answer">>}

\* Edges with the edge from Planner to Retriver left out: nothing follows
\* Planner, so the run ends after it.
EdgesPlannerLast ==
    {<<START, "Router">>, <<"Router", "Planner">>, <<"Retriver", "Answer">>}

\* Edges with Router wired past Planner.
EdgesSkipPlanner ==
    {<<START, "Router">>, <<"Router", "Retriver">>, <<"Retriver", "Answer">>}

Edges ==
    {<<START, "Router">>, <<"Router", "Planner">>, <<"Planner", "Retriver">>,
     <<"Retriver", "Answer">>}

\* Route with the loop-back branch lost.
RouteAlwaysEnd(st) == "END"

\* The conditional edge out of Answer.
Route(st) == IF GetDone(st) THEN "END" ELSE "Planner"

PathMap(label) == IF label = "Planner" THEN "Planner" ELSE END

\* The nodes the next step runs, given the nodes that just completed.
Successors(completed, st) ==
    ({e[2] : e \in {d \in Edges : d[1] \in completed}}
       \cup (IF "Answer" \in completed THEN {PathMap(Route(st))} ELSE {}))
    \ {END}

(****************************** the callers ********************************)
\* agents/main.py overwrites the transcription with this text.
MainQuery == "I want to find a costume for this halloween."

ErrorMessage == "Error processing query: ..."

Pending == [kind |-> "pending", text |-> ""]

\* Nothing of the tool side is in use.
ToolsAtRest ==
    /\ SERPER_API_KEY = NoneValue
    /\ web = <<>>
    /\ srv = <<>>
    /\ idx = <<>>

Init ==
    /\ caller \in {"process_query", "main"}
    /\ use_tts \in (IF caller = "main" THEN {TRUE} ELSE BOOLEAN)
    /\ query \in (IF caller = "main" THEN {MainQuery} ELSE Queries)
    /\ phase = "idle"
    /\ state = EmptyState
    /\ scheduled = {}
    /\ status = [n \in Nodes |-> "idle"]
    /\ writes = [n \in Nodes |-> NoUpdate]
    /\ started = [n \in Nodes |-> 0]
    /\ finished = [n \in Nodes |-> 0]
    /\ prompt = [n \in Nodes |-> NoPrompt]
    /\ messages = <<>>
    /\ calls = <<>>
    /\ outcome = Pending
    /\ tts = "none"
    /\ ToolsAtRest

(************************* running the graph *******************************)
\* app.ainvoke({"input": query}): the input is written, START's successor
\* is scheduled.
Invoke ==
    /\ phase = "idle"
    /\ outcome = Pending
    /\ LET st == Merge(EmptyState,
                       [keys |-> {"input"},
                        vals |-> [BlankVals EXCEPT !.input = query]])
       IN  /\ state' = st
           /\ scheduled' = Successors({START}, st)
    /\ phase' = "running"
    /\ UNCHANGED toolVars
    /\ UNCHANGED <<caller, use_tts, query, status, writes, started, finished,
                   prompt, messages, calls, outcome, tts>>

\* A scheduled node starts: it reads the state and builds its prompt. The
\* Retriever also creates its sub-agent and hands it the prompt.
StartNode(n) ==
    /\ phase = "running"
    /\ n \in scheduled
    /\ status[n] = "idle"
    /\ started[n] < MaxPasses
    /\ started' = [started EXCEPT ![n] = @ + 1]
    /\ IF ReadsInputByIndex(n) /\ "input" \notin state.present
       THEN /\ phase' = "aborted"
            /\ UNCHANGED <<status, prompt, messages, calls>>
       ELSE /\ phase' = phase
            /\ status' = [status EXCEPT ![n] = "running"]
            /\ prompt' = [prompt EXCEPT ![n] = PromptOf(n, state)]
            /\ IF n = "Retriver"
               THEN /\ messages' = <<HumanMessage(PromptOf(n, state).arg)>>
                    /\ calls' = <<>>
               ELSE UNCHANGED <<messages, calls>>
    /\ UNCHANGED toolVars
    /\ UNCHANGED <<caller, use_tts, query, state, scheduled, writes, finished,
                   outcome, tts>>

\* llm.invoke returns: Router, Planner and Answer return their update.
NodeReturn(n) ==
    /\ phase = "running"
    /\ n \in Nodes \ {"Retriver"}
    /\ status[n] = "running"
    /\ \E content \in LLMTexts(n) :
          writes' = [writes EXCEPT ![n] = NodeFn(n, state, content)]
    /\ status' = [status EXCEPT ![n] = "returned"]
    /\ finished' = [finished EXCEPT ![n] = @ + 1]
    /\ UNCHANGED toolVars
    /\ UNCHANGED <<caller, use_tts, query, phase, state, scheduled, started,
                   prompt, messages, calls, outcome, tts>>

\* The sub-agent going on to its model without awaiting its tool calls.
AgentNotAwaiting == status["Retriver"] = "running"

\* The sub-agent is waiting for its model: no tool call is outstanding.
AgentAtModel ==
    /\ status["Retriver"] = "running"
    /\ \A i \in 1..Len(calls) : calls[i].done

\* The language-model call of a running node raises: the exception leaves
\* the node and the graph run; nothing the step returned is written.
LLMRaise(n) ==
    /\ phase = "running"
    /\ status[n] = "running"
    /\ n = "Retriver" => AgentAtModel
    /\ phase' = "aborted"
    /\ writes' = [m \in Nodes |-> NoUpdate]
    /\ UNCHANGED toolVars
    /\ UNCHANGED <<caller, use_tts, query, state, scheduled, status, started,
                   finished, prompt, messages, calls, outcome, tts>>

(********************* the Retriever's sub-agent ***************************)
\* The tool calls one model message can request.
CallLists(k) == UNION {[1..m -> Tools] : m \in 1..k}

NewCall(tool) == [tool |-> tool, done |-> FALSE, payload |-> ""]

\* The model answers with tool calls: they are issued together.
AgentToolCalls ==
    /\ phase = "running"
    /\ AgentAtModel
    /\ \E tcs \in CallLists(MaxToolCalls - Len(calls)) :
          /\ messages' = Append(messages, AIMessage("", tcs))
          /\ calls' = calls \o [i \in 1..Len(tcs) |-> NewCall(tcs[i])]
    /\ UNCHANGED toolVars
    /\ UNCHANGED <<caller, use_tts, query, phase, state, scheduled, status,
                   writes, started, finished, prompt, outcome, tts>>

\* The ToolMessages of the calls from..Len(cs), in the order of the calls.
TurnMessages(cs, from) ==
    [i \in 1..(Len(cs) - from + 1) |-> ToolMessage(cs[from + i - 1].payload)]

\* One outstanding tool call completes, in any order; when the last call of
\* the turn has completed the responses join the message list.
ToolReturn(i) ==
    /\ phase = "running"
    /\ status["Retriver"] = "running"
    /\ i \in 1..Len(calls)
    /\ ~calls[i].done
    /\ \E p \in Payloads(calls[i].tool) :
          LET cs == [calls EXCEPT ![i] = [@ EXCEPT !.done = TRUE,
                                                   !.payload = p]]
              seen == Cardinality({j \in 1..Len(messages) :
                                     messages[j].type = "tool"})
          IN  /\ calls' = cs
              /\ messages' = IF \A j \in 1..Len(cs) : cs[j].done
                             THEN messages \o TurnMessages(cs, seen + 1)
                             ELSE messages
    /\ UNCHANGED toolVars
    /\ UNCHANGED <<caller, use_tts, query, phase, state, scheduled, status,
                   writes, started, finished, prompt, outcome, tts>>

\* The model answers without tool calls: agent.ainvoke returns and
\* retrieve_node returns its update.
AgentFinal ==
    /\ phase = "running"
    /\ AgentAtModel
    /\ \E content \in FinalTexts :
          LET msgs == Append(messages, AIMessage(content, <<>>))
          IN  /\ messages' = msgs
              /\ writes' = [writes EXCEPT !["Retriver"] = retrieve_node(msgs)]
    /\ status' = [status EXCEPT !["Retriver"] = "returned"]
    /\ finished' = [finished EXCEPT !["Retriver"] = @ + 1]
    /\ UNCHANGED toolVars
    /\ UNCHANGED <<caller, use_tts, query, phase, state, scheduled, started,
                   prompt, calls, outcome, tts>>

(**************************** end of a step ********************************)
\* Every node of the step has returned: the updates are written and the
\* edges choose the next step; with nothing to run, ainvoke returns.
EndStep ==
    /\ phase = "running"
    /\ scheduled # {}
    /\ \A n \in scheduled : status[n] = "returned"
    /\ LET st == MergeAll(state, writes, scheduled)
           next == Successors(scheduled, st)
       IN  /\ state' = st
           /\ scheduled' = IF next = {} THEN scheduled ELSE next
           /\ phase' = IF next = {} THEN "end" ELSE "running"
    /\ status' = [n \in Nodes |-> "idle"]
    /\ writes' = [n \in Nodes |-> NoUpdate]
    /\ UNCHANGED toolVars
    /\ UNCHANGED <<caller, use_tts, query, started, finished, prompt,
                   messages, calls, outcome, tts>>

(***************************** the callers *********************************)
\* process_query reading the result without the try/except around the run.
process_query_uncaught ==
    /\ caller = "process_query"
    /\ outcome = Pending
    /\ phase \in {"end", "aborted"}
    /\ outcome' = [kind |-> "value",
                   text |-> Get(state, "response", NoResponse)]
    /\ IF use_tts THEN tts' \in {"played", "failed"} ELSE tts' = tts
    /\ UNCHANGED toolVars
    /\ UNCHANGED <<caller, use_tts, query, phase, state, scheduled, status,
                   writes, started, finished, prompt, messages, calls>>

\* streamlit_app.process_query: any exception becomes the error message; a
\* text-to-speech failure is only a warning.
process_query ==
    /\ caller = "process_query"
    /\ outcome = Pending
    /\ phase \in {"end", "aborted"}
    /\ IF phase = "aborted"
       THEN /\ outcome' = [kind |-> "value", text |-> ErrorMessage]
            /\ tts' = tts
       ELSE /\ outcome' = [kind |-> "value",
                           text |-> Get(state, "response", NoResponse)]
            /\ IF use_tts THEN tts' \in {"played", "failed"} ELSE tts' = tts
    /\ UNCHANGED toolVars
    /\ UNCHANGED <<caller, use_tts, query, phase, state, scheduled, status,
                   writes, started, finished, prompt, messages, calls>>

\* agents/main.main: nothing is caught; the answer is printed before it is
\* spoken.
main ==
    /\ caller = "main"
    /\ outcome = Pending
    /\ phase \in {"end", "aborted"}
    /\ IF phase = "aborted" \/ ~({"response", "retrieved_context"}
                                   \subseteq state.present)
       THEN /\ outcome' = [kind |-> "exception", text |-> ""]
            /\ tts' = tts
       ELSE \E t \in {"played", "failed"} :
               /\ tts' = t
               /\ outcome' = [kind |-> IF t = "failed" THEN "exception"
                                       ELSE "value",
                              text |-> state.vals.response]
    /\ UNCHANGED toolVars
    /\ UNCHANGED <<caller, use_tts, query, phase, state, scheduled, status,
                   writes, started, finished, prompt, messages, calls>>

Next ==
    \/ Invoke
    \/ \E n \in Nodes : StartNode(n)
    \/ \E n \in Nodes : NodeReturn(n)
    \/ \E n \in Nodes : LLMRaise(n)
    \/ AgentToolCalls
    \/ \E i \in 1..MaxToolCalls : ToolReturn(i)
    \/ AgentFinal
    \/ EndStep
    \/ process_query
    \/ main

Spec == Init /\ [][Next]_vars

\* The asyncio event loop runs whatever is ready, and every external call
\* either returns or raises.
FairSpec == Spec /\ WF_vars(Next)

(***************************************************************************)
(* The conditional edge, against every update an Answerer could return.    *)
(* answer_critic_node always returns done = True, so a state that leaves   *)
(* Answer with done false is reached by no run of Spec; SpecHook adds, as  *)
(* initial states, the runs whose first Answer pass returned an arbitrary  *)
(* update, and runs the same graph from there.                             *)
(***************************************************************************)
AnswerUpdates ==
    {[keys |-> ks, vals |-> [BlankVals EXCEPT !.response = r, !.done = d]] :
        ks \in {{"response"}, {"response", "done"}},
        r \in AnswerTexts, d \in BOOLEAN}

InitHook ==
    /\ caller \in {"process_query", "main"}
    /\ use_tts \in (IF caller = "main" THEN {TRUE} ELSE BOOLEAN)
    /\ query \in (IF caller = "main" THEN {MainQuery} ELSE Queries)
    /\ phase = "running"
    /\ \E i \in IntentTexts, p \in PlanTexts, k \in FinalTexts :
          /\ state = [present |-> Keys \ {"response", "done"},
                      vals |-> [BlankVals EXCEPT !.input = query,
                                                 !.intent = i, !.plan = p,
                                                 !.knowledge = k]]
          /\ messages = <<HumanMessage(p), AIMessage(k, <<>>)>>
    /\ prompt = [n \in Nodes |-> PromptOf(n, state)]
    /\ scheduled = {"Answer"}
    /\ status = [n \in Nodes |-> IF n = "Answer" THEN "returned" ELSE "idle"]
    /\ \E up \in AnswerUpdates :
          writes = [n \in Nodes |-> IF n = "Answer" THEN up ELSE NoUpdate]
    /\ started = [n \in Nodes |-> 1]
    /\ finished = [n \in Nodes |-> 1]
    /\ calls = <<>>
    /\ outcome = Pending
    /\ tts = "none"
    /\ ToolsAtRest

SpecHook == (Init \/ InitHook) /\ [][Next]_vars

(***************************************************************************)
(*                              The claims                                 *)
(***************************************************************************)
\* A stage is active from its start to its return.
Active == IF phase = "running"
          THEN {n \in Nodes : status[n] = "running"} ELSE {}

\* C1: the stages of a run execute one at a time in the order Router,
\* Planner, Retriever, Answerer: at most one stage is active, Planner has
\* started only if Router has finished, and Retriever (Answerer) has been
\* started no more often than Planner (Retriever) has finished.
C1_StagesInOrder ==
    /\ Cardinality(Active) <= 1
    /\ \A n \in Nodes : finished[n] <= started[n]
    /\ started["Planner"] > 0 => finished["Router"] > 0
    /\ started["Planner"] <= finished["Router"]
    /\ started["Retriver"] <= finished["Planner"]
    /\ started["Answer"] <= finished["Retriver"]
    /\ \A n \in Active : \A m \in Nodes \ {n} : finished[m] = started[m]

C1_Witness ==
    /\ Active = {"Answer"}
    /\ \A n \in Nodes \ {"Answer"} : finished[n] = 1

\* C2: the run ends only out of Answer and only with done true: in every
\* terminal state the last step was Answer's, done is true and response is
\* written; no edge of another stage leads to END.
C2_EndOnlyFromAnswerDone ==
    /\ \A e \in Edges : e[2] # END
    /\ phase = "end" =>
          /\ scheduled = {"Answer"}
          /\ GetDone(state)
          /\ "response" \in state.present
          /\ state.vals.response \in AnswerTexts

C2_Witness == phase = "end" /\ GetDone(state)

\* C3: every Answerer execution returns done = true, so each of the four
\* stages is started at most once, a run that ends has run each exactly
\* once, Planner is never entered a second time, and (with every external
\* call returning or raising) the run comes to its end.
C3_SinglePassTerminates ==
    /\ [](/\ status["Answer"] = "returned" =>
                /\ "done" \in writes["Answer"].keys
                /\ writes["Answer"].vals.done
          /\ \A n \in Nodes : started[n] <= 1
          /\ phase = "end" => \A n \in Nodes : started[n] = 1 /\ finished[n] = 1)
    /\ <>(phase \in {"end", "aborted"})

C3_Witness ==
    /\ phase = "end"
    /\ \A n \in Nodes : finished[n] = 1
    /\ outcome # Pending

\* A step that leaves the Answerer stage: its update is written and the
\* conditional edge is followed.
LeavesAnswer ==
    /\ phase = "running"
    /\ scheduled = {"Answer"}
    /\ status["Answer"] = "returned"
    /\ state' # state \/ scheduled' # scheduled \/ phase' # phase

\* C4: whenever the state leaving Answerer has done false (or unset), the
\* run does not end there: Planner is the next stage, and Retriever and
\* Answerer run again only after it, in that order.
C4_ReplanHook ==
    /\ [][(LeavesAnswer /\ ~GetDone(state')) =>
             (phase' = "running" /\ scheduled' = {"Planner"})]_vars
    /\ [](/\ phase = "end" => GetDone(state)
          /\ started["Retriver"] <= finished["Planner"]
          /\ started["Answer"] <= finished["Retriver"])

C4_Witness ==
    /\ ~GetDone(state)
    /\ started["Planner"] = 2
    /\ status["Answer"] = "running"
    /\ finished["Retriver"] = 2

\* The output fields the data model gives each stage.
OwnFields(n) ==
    CASE n = "Router" -> {"intent"}
      [] n = "Planner" -> {"plan"}
      [] n = "Retriver" -> {"knowledge", "retrieved_context"}
      [] OTHER -> {"response", "done"}

FieldChanged(k) ==
    \/ (k \in state.present) # (k \in state'.present)
    \/ state.vals[k] # state'.vals[k]

\* C5: each stage writes its own output fields and no other: a returned
\* update has exactly the stage's keys, a field of the state changes only
\* in the step of the stage that owns it (input only when the run is
\* created), and done is never written by Router, Planner or Retriever.
C5_StagesWriteOwnFields ==
    /\ [](\A n \in Nodes : status[n] = "returned" =>
                              writes[n].keys = OwnFields(n))
    /\ [][\A k \in Keys : FieldChanged(k) =>
             \/ phase = "idle" /\ k = "input"
             \/ \E n \in scheduled :
                   status[n] = "returned" /\ k \in OwnFields(n)]_vars
    /\ []("done" \in state.present => finished["Answer"] > 0)

C5_Witness ==
    /\ phase = "end"
    /\ state.present = Keys
    /\ state.vals.input = query

\* C6: no stage reads a field before its producer has run: the intent
\* Planner reads was written by Router, the plan Retriever reads by Planner,
\* the knowledge Answerer reads by Retriever, so no prompt ever carries a
\* "No ... provided" default.
C6_NoReadBeforeWrite ==
    /\ \A n \in Nodes :
          prompt[n] # NoPrompt =>
             /\ prompt[n].query = query
             /\ prompt[n].arg \notin {NoIntent, NoPlan, NoKnowledge, NoQuery}
    /\ started["Planner"] > 0 =>
          /\ finished["Router"] > 0
          /\ "intent" \in state.present
          /\ prompt["Planner"].arg = state.vals.intent
    /\ started["Retriver"] > 0 =>
          /\ finished["Planner"] > 0
          /\ "plan" \in state.present
          /\ prompt["Retriver"].arg = state.vals.plan
    /\ started["Answer"] > 0 =>
          /\ finished["Retriver"] > 0
          /\ "knowledge" \in state.present
          /\ prompt["Answer"].arg = state.vals.knowledge

C6_Witness ==
    /\ status["Answer"] = "running"
    /\ prompt["Answer"].arg \in FinalTexts
    /\ prompt["Retriver"].arg \in PlanTexts
    /\ prompt["Planner"].arg \in IntentTexts

\* C7: when a stage's language-model call raises, the run is over: no stage
\* starts or returns afterwards, the state is not written again, it holds no
\* response, nothing is spoken, and the caller ends with a failure
\* (process_query with its error message, main with the exception), never
\* with an answer.
C7_LLMFailureAborts ==
    /\ [][phase = "aborted" =>
             /\ phase' = "aborted"
             /\ started' = started /\ finished' = finished
             /\ state' = state /\ status' = status]_vars
    /\ [](phase = "aborted" =>
             /\ "response" \notin state.present
             /\ \A n \in Nodes : writes[n] = NoUpdate
             /\ tts = "none"
             /\ outcome # Pending =>
                   outcome = IF caller = "process_query"
                             THEN [kind |-> "value", text |-> ErrorMessage]
                             ELSE [kind |-> "exception", text |-> ""])

C7_Witness ==
    /\ phase = "aborted"
    /\ status["Retriver"] = "running"
    /\ Len(calls) > 0
    /\ outcome = [kind |-> "value", text |-> ErrorMessage]

\* The Retriever stage has completed and its update is written.
RetrieverWritten == {"knowledge", "retrieved_context"} \subseteq state.present

\* The tools invoked during the Retriever stage.
ToolsInvoked == {calls[i].tool : i \in 1..Len(calls)}

\* C8: after a completed Retriever execution knowledge is set and not null,
\* and when the stage observed zero tool calls it is exactly the sentinel
\* "Retrieval not applicable.".
C8_SentinelWithoutToolCalls ==
    RetrieverWritten =>
       /\ state.vals.knowledge # NoneValue
       /\ calls = <<>> => state.vals.knowledge = NotApplicable

\* C9: the Retriever invokes the catalog search tool iff the plan's data
\* source includes private (private or both), and the web search tool iff
\* it is both.
C9_ToolsFollowDataSource ==
    RetrieverWritten =>
       /\ RagTool \in ToolsInvoked <=> state.vals.plan \in {"private", "both"}
       /\ WebTool \in ToolsInvoked <=> state.vals.plan = "both"

\* C10: after the Retriever stage retrieved_context has one entry per tool
\* invocation of the stage, in the order the responses stand in the
\* sub-agent's message list (the order of the invocations), each entry the
\* raw payload of that response; with no tool call it is empty.
C10_ContextIsToolPayloads ==
    /\ status["Retriver"] = "returned" =>
          writes["Retriver"].vals.retrieved_context =
             [i \in 1..Len(calls) |-> calls[i].payload]
    /\ RetrieverWritten =>
          /\ Len(state.vals.retrieved_context) = Len(calls)
          /\ \A i \in 1..Len(calls) :
                /\ calls[i].done
                /\ state.vals.retrieved_context[i] = calls[i].payload
                /\ state.vals.retrieved_context[i] \in Payloads(calls[i].tool)

C10_Witness ==
    /\ RetrieverWritten
    /\ Len(calls) = 2
    /\ calls[1].tool = WebTool
    /\ calls[2].tool = RagTool
    /\ Len(get_tool_messages(messages)) = 2
    /\ messages[2].tool_calls = <<WebTool, RagTool>>

(***************************************************************************)
(* agents/tools/web_search.py                                              *)
(*                                                                         *)
(* A query is the sequence of its tokens. A URL is a string of a small     *)
(* set, with strip, lower and the substring test given on that set. A      *)
(* rating is counted in tenths. None is NoneValue for a string and NoneNum *)
(* for a number.                                                           *)
(***************************************************************************)
MaxRaw == 3       \* longest list the search API hands back

NoneNum == -1

SERPER_SEARCH_URL == "https://google.serper.dev/search"

SERPER_SHOPPING_URL == "https://google.serper.dev/shopping"

ApiKeys == {NoneValue, "", "serper-key"}

\* Python truth of a string or None, and of a number or None.
Truthy(s) == s # NoneValue /\ s # ""

TruthyNum(n) == n # NoneNum /\ n # 0

\* x or y
PyOr(x, y) == IF Truthy(x) THEN x ELSE y

PyOrNum(n, m) == IF TruthyNum(n) THEN n ELSE m

Min2(a, b) == IF a <= b THEN a ELSE b

Max2(a, b) == IF a >= b THEN a ELSE b

\* s[:n], n negative included
PySlice(s, n) ==
    IF n >= 0 THEN SubSeq(s, 1, Min2(n, Len(s)))
    ELSE SubSeq(s, 1, Max2(Len(s) + n, 0))

Separators == {"|", "-", "(", ")", ":"}

NoiseTokens == {"10 pcs", "3 inch", "1/43 scale", "for ages 3+"}

Titles ==
    { <<"lego", "city">>,
      <<"lego", "city", "-", "police", "station">>,
      <<"lego", "10 pcs", "city", "|", "3 inch">>,
      <<"10 pcs">>,
      <<"(", "sale", ")">>,
      <<>> }

RECURSIVE BeforeSeparator(_)
BeforeSeparator(t) ==
    IF t = <<>> \/ Head(t) \in Separators THEN <<>>
    ELSE <<Head(t)>> \o BeforeSeparator(Tail(t))

RECURSIVE WithoutNoise(_)
WithoutNoise(t) ==
    IF t = <<>> THEN <<>>
    ELSE IF Head(t) \in NoiseTokens THEN WithoutNoise(Tail(t))
    ELSE <<Head(t)>> \o WithoutNoise(Tail(t))

_clean_title_for_search(title) ==
    IF title = <<>> THEN <<>>
    ELSE WithoutNoise(BeforeSeparator(title))

strip(u) == IF u = "  " THEN "" ELSE u

lower(u) ==
    IF u = "https://www.google.com/search?Q=NaN&tbm=shop"
    THEN "https://www.google.com/search?q=nan&tbm=shop"
    ELSE u

\* "q=nan" in u
has_q_nan(u) ==
    u \in { "https://www.google.com/search?q=nan",
            "https://www.google.com/search?q=nan&tbm=shop" }

\* One item of the API's "shopping" or "organic" list; a key the API left
\* out reads as None.
RawItem(title, link, price, availability, condition, rating, ratingCount) ==
    [title |-> title, link |-> link, snippet |-> "about " \o title,
     price |-> price, availability |-> availability,
     condition |-> condition, rating |-> rating,
     ratingCount |-> ratingCount]

RawItems ==
    { RawItem("A", "https://shop.example/a", "$19.99", "In stock",
              NoneValue, 45, 10),
      RawItem("B", "https://shop.example/b", "$5.00", NoneValue,
              "New", NoneNum, 100),
      RawItem("C", "https://shop.example/c", NoneValue, NoneValue,
              NoneValue, 49, 2),
      RawItem("D", "", "$7.50", "In stock", NoneValue, 45, 10),
      RawItem("E", "https://www.google.com/search?Q=NaN&tbm=shop",
              NoneValue, NoneValue, NoneValue, NoneNum, NoneNum),
      RawItem("F", NoneValue, "$1.00", NoneValue, NoneValue, 0, 0),
      RawItem("G", "  ", NoneValue, NoneValue, NoneValue, 49, 10),
      RawItem("H", "https://www.google.com/search?q=nan", "$2.00",
              NoneValue, NoneValue, 50, 200) }

RECURSIVE ListsOver(_, _)
ListsOver(S, n) ==
    IF n = 0 THEN {<<>>}
    ELSE LET shorter == ListsOver(S, n - 1)
         IN shorter \cup
            { Append(l, x) : l \in {k \in shorter : Len(k) = n - 1},
                             x \in {y \in S : TRUE} }

\* What the API can answer with: lists without a repeated item.
RawLists ==
    { l \in ListsOver(RawItems, MaxRaw) :
        \A i, j \in 1..Len(l) : i # j => l[i] # l[j] }

(**************************** the tool's results ***************************)
NoRequest == [url |-> NoneValue, q |-> <<>>, num |-> 0, timeout |-> 0]

Returned(results, note) ==
    [kind |-> "return", results |-> results, note |-> note,
     exc |-> NoneValue]

Raised(exc) ==
    [kind |-> "raise", results |-> <<>>, note |-> NoneValue, exc |-> exc]

PendingOut ==
    [kind |-> "pending", results |-> <<>>, note |-> NoneValue,
     exc |-> NoneValue]

\* a client without a timeout
httpx_timeout_none(mode) == 0

\* httpx.Client(timeout=10.0), the same in both helpers: seconds the client
\* waits for the API; 0 stands for no timeout.
httpx_timeout(mode) == 10

\* What the API does with a request: it answers with data, it answers with
\* an error status (raise_for_status raises), or the client's timeout runs
\* out. NotAsked stands for no request made.
NotAsked == [kind |-> "none", data |-> <<>>, exc |-> NoneValue]

ApiJson(data) == [kind |-> "json", data |-> data, exc |-> NoneValue]

ApiStatusError ==
    [kind |-> "raise", data |-> <<>>,
     exc |-> "Client error '403 Forbidden' for url"]

ApiTimedOut ==
    [kind |-> "raise", data |-> <<>>, exc |-> "The read operation timed out"]

\* The key in the order the helper's docstring gives: rating before count.
_quality_sort_key_docstring(item) ==
    LET rating == item.rating
        rating_count == item.rating_count
        has_rating == IF rating # NoneNum THEN 1 ELSE 0
    IN <<has_rating, PyOrNum(rating, 0), PyOrNum(rating_count, 0)>>

_quality_sort_key(item) ==
    LET rating == item.rating
        rating_count == item.rating_count
        has_rating == IF rating # NoneNum THEN 1 ELSE 0
    IN <<has_rating, PyOrNum(rating_count, 0), PyOrNum(rating, 0)>>

\* tuple comparison a > b
KeyGreater(a, b) ==
    \/ a[1] > b[1]
    \/ a[1] = b[1] /\ a[2] > b[2]
    \/ a[1] = b[1] /\ a[2] = b[2] /\ a[3] > b[3]

\* sorted(l, key=_quality_sort_key, reverse=True): descending, and items
\* with equal keys keep their order.
RECURSIVE InsertDesc(_, _)
InsertDesc(x, l) ==
    IF l = <<>> THEN <<x>>
    ELSE IF KeyGreater(_quality_sort_key(Head(l)), _quality_sort_key(x))
    THEN <<Head(l)>> \o InsertDesc(x, Tail(l))
    ELSE <<x>> \o l

RECURSIVE sorted(_)
sorted(l) ==
    IF l = <<>> THEN <<>>
    ELSE InsertDesc(Head(l), sorted(Tail(l)))

SearchResult(item) ==
    [title |-> item.title, url |-> item.link, snippet |-> item.snippet,
     price |-> NoneValue, availability |-> NoneValue]

ShoppingResult(item) ==
    [title |-> item.title, url |-> item.link, snippet |-> item.snippet,
     price |-> item.price,
     availability |-> PyOr(item.availability, item.condition),
     rating |-> item.rating, rating_count |-> item.ratingCount]

\* the URL test of the shopping helper: the result is kept
KeptUrl(url) ==
    LET u == strip(PyOr(url, ""))
    IN u # "" /\ ~has_q_nan(lower(u))

RECURSIVE SelectKept(_)
SelectKept(l) ==
    IF l = <<>> THEN <<>>
    ELSE IF KeptUrl(Head(l).url) THEN <<Head(l)>> \o SelectKept(Tail(l))
    ELSE SelectKept(Tail(l))

_call_serper_search(key, q, max_results, api) ==
    IF ~Truthy(key) THEN Returned(<<>>, NoneValue)
    ELSE IF api.kind = "raise" THEN Raised(api.exc)
    ELSE LET organic == PySlice(api.data, max_results)
         IN Returned([i \in 1..Len(organic) |-> SearchResult(organic[i])],
                     NoneValue)

_call_serper_shopping(key, q, max_results, api) ==
    IF ~Truthy(key) THEN Returned(<<>>, NoneValue)
    ELSE IF api.kind = "raise" THEN Raised(api.exc)
    ELSE LET shopping == PySlice(api.data, max_results)
             results == [i \in 1..Len(shopping) |->
                           ShoppingResult(shopping[i])]
             kept == SelectKept(results)
             cleaned_results == IF kept = <<>> THEN results ELSE kept
             sorted_results == sorted(cleaned_results)
         IN Returned(PySlice(sorted_results, max_results), NoneValue)

\* the query the helpers are called with
SearchQuery(raw_query) ==
    LET cleaned_query == _clean_title_for_search(raw_query)
    IN IF cleaned_query # <<>> THEN cleaned_query ELSE raw_query

\* The same tool with the credential check of its own body left out.
web_search_tool_unchecked(key, q, max_results, mode, api) ==
    IF mode = "shopping"
    THEN _call_serper_shopping(key, SearchQuery(q), max_results, api)
    ELSE _call_serper_search(key, SearchQuery(q), max_results, api)

\* web_search_tool(query, max_results, mode) with the module's key and the
\* API's answer to the request it makes.
web_search_tool(key, q, max_results, mode, api) ==
    IF ~Truthy(key)
    THEN Returned(<<>>, "SERPER_API_KEY not set.")
    ELSE IF mode = "shopping"
    THEN _call_serper_shopping(key, SearchQuery(q), max_results, api)
    ELSE _call_serper_search(key, SearchQuery(q), max_results, api)

\* The request the tool posts, NoRequest when it returns before any.
web_search_request(key, q, max_results, mode) ==
    IF ~Truthy(key) THEN NoRequest
    ELSE [url |-> IF mode = "shopping" THEN SERPER_SHOPPING_URL
                  ELSE SERPER_SEARCH_URL,
          q |-> SearchQuery(q), num |-> max_results,
          timeout |-> httpx_timeout(mode)]

(************************ one call of the web tool *************************)
\* The tool declares 1 to 10 and nothing on the way to it enforces that.
MaxResultsArgs == {-1, 0, 1, 2, 5, 12}

Modes == {"shopping", "web", "news"}

\* a call that has been made and has not run yet
WebCalled(q, max_results, mode) ==
    [pc |-> "called", query |-> q, max_results |-> max_results,
     mode |-> mode, request |-> NoRequest, api |-> NotAsked,
     out |-> PendingOut]

\* the call runs up to its return or up to the request it posts
WebStart(key, w) ==
    LET req == web_search_request(key, w.query, w.max_results, w.mode)
    IN IF req = NoRequest
       THEN [w EXCEPT !.pc = "done",
                      !.out = web_search_tool(key, w.query, w.max_results,
                                              w.mode, NotAsked)]
       ELSE [w EXCEPT !.pc = "api", !.request = req]

\* the request is over with answer api, the call runs to its end
WebFinish(key, w, api) ==
    [w EXCEPT !.pc = "done", !.api = api,
              !.out = web_search_tool(key, w.query, w.max_results, w.mode,
                                      api)]

PipelineAtRest ==
    /\ caller = "main"
    /\ use_tts = TRUE
    /\ query = MainQuery
    /\ phase = "idle"
    /\ state = EmptyState
    /\ scheduled = {}
    /\ status = [n \in Nodes |-> "idle"]
    /\ writes = [n \in Nodes |-> NoUpdate]
    /\ started = [n \in Nodes |-> 0]
    /\ finished = [n \in Nodes |-> 0]
    /\ prompt = [n \in Nodes |-> NoPrompt]
    /\ messages = <<>>
    /\ calls = <<>>
    /\ outcome = Pending
    /\ tts = "none"

WebInit ==
    /\ PipelineAtRest
    /\ SERPER_API_KEY \in ApiKeys
    /\ \E q \in Titles, m \in MaxResultsArgs, mode \in Modes :
          web = WebCalled(q, m, mode)
    /\ srv = <<>>
    /\ idx = <<>>

WebCall ==
    /\ web.pc = "called"
    /\ web' = WebStart(SERPER_API_KEY, web)
    /\ UNCHANGED <<pipeVars, SERPER_API_KEY, srv, idx>>

\* an answer of the API with a dozen results
LongRaw ==
    [i \in 1..12 |->
        RawItem("L", "https://shop.example/a", "$19.99", "In stock",
                NoneValue, 45, i)]

\* resp.json() after a good status
ApiRespond ==
    /\ web.pc = "api"
    /\ \E data \in RawLists \cup {LongRaw} :
          web' = WebFinish(SERPER_API_KEY, web, ApiJson(data))
    /\ UNCHANGED <<pipeVars, SERPER_API_KEY, srv, idx>>

\* resp.raise_for_status() raises
ApiFail ==
    /\ web.pc = "api"
    /\ web' = WebFinish(SERPER_API_KEY, web, ApiStatusError)
    /\ UNCHANGED <<pipeVars, SERPER_API_KEY, srv, idx>>

\* the client's timeout runs out before the API has answered
ApiTimeout ==
    /\ web.pc = "api"
    /\ web.request.timeout > 0
    /\ web' = WebFinish(SERPER_API_KEY, web, ApiTimedOut)
    /\ UNCHANGED <<pipeVars, SERPER_API_KEY, srv, idx>>

WebNext ==
    \/ WebCall
    \/ ApiRespond
    \/ ApiFail
    \/ ApiTimeout

WebSpec == WebInit /\ [][WebNext]_vars

(***************************************************************************)
(*                     The claims on the web search tool                   *)
(***************************************************************************)
\* the call is over and the tool returned a value
WebReturned == web.pc = "done" /\ web.out.kind = "return"

\* the call is over and the tool returned what it made of the API's data
WebReturnedData(modes) ==
    /\ WebReturned
    /\ web.api.kind = "json"
    /\ web.mode \in modes

\* C17: with no search API credential configured (the key is None or
\* empty), web_search_tool returns an empty result list and a note that is
\* not None, for every query, max_results and mode; it does not raise and
\* posts no request to the API.
C17_NoCredentialEmptyWithNote ==
    (~Truthy(SERPER_API_KEY) /\ web.pc # "called") =>
        /\ web.pc = "done"
        /\ web.out.kind = "return"
        /\ web.out.results = <<>>
        /\ web.out.note # NoneValue
        /\ web.request = NoRequest
        /\ web.api = NotAsked

C17_Witness ==
    /\ SERPER_API_KEY = ""
    /\ web.pc = "done"
    /\ web.mode = "web"
    /\ web.max_results = 5
    /\ web.query = <<"lego", "city">>
    /\ web.out.note = "SERPER_API_KEY not set."

\* the composite key of C18, written out
RatedFlag(r) == IF r.rating = NoneNum THEN 0 ELSE 1

CountOf(r) == IF r.rating_count = NoneNum THEN 0 ELSE r.rating_count

RatingOf(r) == IF r.rating = NoneNum THEN 0 ELSE r.rating

TitlesOf(l) == [i \in 1..Len(l) |-> l[i].title]

ValidUrl(url) ==
    /\ url # NoneValue
    /\ strip(url) # ""
    /\ ~has_q_nan(lower(url))

\* C19: in shopping mode, if at least one raw result has a valid URL, no
\* returned result has an empty or "q=nan" URL (the unfiltered set is used
\* only when filtering leaves nothing). Stated for a max_results within the
\* range the tool declares, 1 to 10.
C19_ValidUrlsWhenAnyValid ==
    (/\ WebReturnedData({"shopping"})
     /\ web.max_results \in 1..10
     /\ \E i \in 1..Len(web.api.data) : ValidUrl(web.api.data[i].link)) =>
        \A i \in 1..Len(web.out.results) : ValidUrl(web.out.results[i].url)

\* C20: every result web_search_tool returns, in either mode, has a URL.
C20_EveryResultHasUrl ==
    WebReturned =>
        \A i \in 1..Len(web.out.results) :
            /\ web.out.results[i].url # NoneValue
            /\ strip(web.out.results[i].url) # ""

(***************************************************************************)
(* agents/mcp_server.py                                                    *)
(*                                                                         *)
(* A Python value that goes through json is a tagged tree: None, str, int, *)
(* float (in tenths), list, dict (its items in insertion order). A JSON    *)
(* text is the sequence of its tokens. json.dumps writes the tokens of a   *)
(* value, json.loads parses a token sequence back into a value.            *)
(***************************************************************************)
PyNone == [t |-> "none", s |-> "", n |-> 0, v |-> <<>>]

PyStr(s) == [t |-> "str", s |-> s, n |-> 0, v |-> <<>>]

\* a str that holds a JSON text, kept as the tokens of the text
PyText(toks) == [t |-> "str", s |-> "", n |-> 0, v |-> toks]

PyInt(n) == [t |-> "int", s |-> "", n |-> n, v |-> <<>>]

PyFloat(n) == [t |-> "float", s |-> "", n |-> n, v |-> <<>>]

PyList(v) == [t |-> "list", s |-> "", n |-> 0, v |-> v]

\* items: a sequence of [k |-> key, val |-> value]
PyDict(items) == [t |-> "dict", s |-> "", n |-> 0, v |-> items]

Item(k, val) == [k |-> k, val |-> val]

\* a str or None, an int or None, a float or None of the tool model
OptStr(s) == IF s = NoneValue THEN PyNone ELSE PyStr(s)

OptInt(n) == IF n = NoneNum THEN PyNone ELSE PyInt(n)

OptFloat(n) == IF n = NoneNum THEN PyNone ELSE PyFloat(n)

\* dict.get(k): the value under k, None when k is not a key
RECURSIVE DictGet(_, _)
DictGet(items, k) ==
    IF items = <<>> THEN PyNone
    ELSE IF Head(items).k = k THEN Head(items).val
    ELSE DictGet(Tail(items), k)

Tok(k, s, n) == [k |-> k, s |-> s, n |-> n, v |-> <<>>]

Punct(c) == Tok(c, "", 0)

\* str(x): None and quoted strings as Python writes them, which is no JSON
RECURSIVE py_str(_)
RECURSIVE StrElems(_)
RECURSIVE StrItems(_)
StrElems(v) ==
    IF v = <<>> THEN <<>>
    ELSE IF Len(v) = 1 THEN py_str(v[1])
    ELSE py_str(v[1]) \o <<Punct(",")>> \o StrElems(Tail(v))

StrItems(items) ==
    IF items = <<>> THEN <<>>
    ELSE LET one == <<Tok("'str'", items[1].k, 0), Punct(":")>>
                       \o py_str(items[1].val)
         IN IF Len(items) = 1 THEN one
            ELSE one \o <<Punct(",")>> \o StrItems(Tail(items))

py_str(x) ==
    CASE x.t = "none" -> <<Tok("None", "", 0)>>
      [] x.t = "str" -> <<[k |-> "'str'", s |-> x.s, n |-> 0, v |-> x.v]>>
      [] x.t = "int" -> <<Tok("int", "", x.n)>>
      [] x.t = "float" -> <<Tok("float", "", x.n)>>
      [] x.t = "list" -> <<Punct("[")>> \o StrElems(x.v) \o <<Punct("]")>>
      [] x.t = "dict" -> <<Punct("{")>> \o StrItems(x.v) \o <<Punct("}")>>

RECURSIVE json_dumps(_)
RECURSIVE DumpElems(_)
RECURSIVE DumpItems(_)
DumpElems(v) ==
    IF v = <<>> THEN <<>>
    ELSE IF Len(v) = 1 THEN json_dumps(v[1])
    ELSE json_dumps(v[1]) \o <<Punct(",")>> \o DumpElems(Tail(v))

DumpItems(items) ==
    IF items = <<>> THEN <<>>
    ELSE LET one == <<Tok("str", items[1].k, 0), Punct(":")>>
                       \o json_dumps(items[1].val)
         IN IF Len(items) = 1 THEN one
            ELSE one \o <<Punct(",")>> \o DumpItems(Tail(items))

json_dumps(x) ==
    CASE x.t = "none" -> <<Tok("null", "", 0)>>
      [] x.t = "str" -> <<[k |-> "str", s |-> x.s, n |-> 0, v |-> x.v]>>
      [] x.t = "int" -> <<Tok("int", "", x.n)>>
      [] x.t = "float" -> <<Tok("float", "", x.n)>>
      [] x.t = "list" -> <<Punct("[")>> \o DumpElems(x.v) \o <<Punct("]")>>
      [] x.t = "dict" -> <<Punct("{")>> \o DumpItems(x.v) \o <<Punct("}")>>

\* json.loads raised
JSONDecodeError == [t |-> "JSONDecodeError", s |-> "", n |-> 0, v |-> <<>>]

NoParse == [ok |-> FALSE, val |-> PyNone, next |-> 0]

Parsed(val, next) == [ok |-> TRUE, val |-> val, next |-> next]

RECURSIVE ParseValue(_, _)
RECURSIVE ParseList(_, _, _)
RECURSIVE ParseDict(_, _, _)
ParseValue(toks, i) ==
    IF i > Len(toks) THEN NoParse
    ELSE LET tok == toks[i]
         IN CASE tok.k = "null" -> Parsed(PyNone, i + 1)
              [] tok.k = "str" ->
                   Parsed([t |-> "str", s |-> tok.s, n |-> 0, v |-> tok.v],
                          i + 1)
              [] tok.k = "int" -> Parsed(PyInt(tok.n), i + 1)
              [] tok.k = "float" -> Parsed(PyFloat(tok.n), i + 1)
              [] tok.k = "[" ->
                   IF i + 1 <= Len(toks) /\ toks[i + 1].k = "]"
                   THEN Parsed(PyList(<<>>), i + 2)
                   ELSE ParseList(toks, i + 1, <<>>)
              [] tok.k = "{" ->
                   IF i + 1 <= Len(toks) /\ toks[i + 1].k = "}"
                   THEN Parsed(PyDict(<<>>), i + 2)
                   ELSE ParseDict(toks, i + 1, <<>>)
              [] OTHER -> NoParse

ParseList(toks, i, acc) ==
    LET e == ParseValue(toks, i)
    IN IF ~e.ok \/ e.next > Len(toks) THEN NoParse
       ELSE IF toks[e.next].k = ","
       THEN ParseList(toks, e.next + 1, Append(acc, e.val))
       ELSE IF toks[e.next].k = "]"
       THEN Parsed(PyList(Append(acc, e.val)), e.next + 1)
       ELSE NoParse

ParseDict(toks, i, acc) ==
    IF i + 1 > Len(toks) \/ toks[i].k # "str" \/ toks[i + 1].k # ":"
    THEN NoParse
    ELSE LET e == ParseValue(toks, i + 2)
         IN IF ~e.ok \/ e.next > Len(toks) THEN NoParse
            ELSE IF toks[e.next].k = ","
            THEN ParseDict(toks, e.next + 1,
                           Append(acc, Item(toks[i].s, e.val)))
            ELSE IF toks[e.next].k = "}"
            THEN Parsed(PyDict(Append(acc, Item(toks[i].s, e.val))),
                        e.next + 1)
            ELSE NoParse

json_loads(toks) ==
    LET r == ParseValue(toks, 1)
    IN IF r.ok /\ r.next = Len(toks) + 1 THEN r.val ELSE JSONDecodeError

(****************************** the messages *******************************)
\* A message is the body request.get_json() hands over. dict says whether
\* it is a JSON object; id and method are None when the key is absent;
\* params is a dict, absent or null; name is the Python value under
\* params.name and arguments the value under params.arguments.
ArgsDict(query_t, q, max_results, mode, extra) ==
    [t |-> "dict", query_t |-> query_t, query |-> q,
     max_results |-> max_results, mode |-> mode, extra |-> extra]

\* no "arguments" key: the default {} is used
NoArgs == ArgsDict("absent", <<>>, NoneNum, NoneValue, FALSE)

\* "arguments" is a JSON list, or null
ArgsList == [NoArgs EXCEPT !.t = "list"]

ArgsNull == [NoArgs EXCEPT !.t = "null"]

ArgumentValues ==
    { ArgsDict("str", <<"lego", "city">>, NoneNum, NoneValue, FALSE),
      ArgsDict("str", <<"lego", "10 pcs", "city", "|", "3 inch">>, 1, "web",
               FALSE),
      ArgsDict("absent", <<>>, NoneNum, NoneValue, FALSE),
      ArgsDict("str", <<"lego", "city">>, NoneNum, NoneValue, TRUE),
      ArgsDict("int", <<>>, NoneNum, NoneValue, FALSE),
      ArgsList, ArgsNull }

NameValues ==
    { PyStr(RagTool), PyStr(WebTool), PyStr("search_tool"), PyNone,
      PyInt(7), PyList(<<PyStr(RagTool)>>) }

Ids == {NoneNum, 1, 2}

Message(id, method, params, name, arguments) ==
    [dict |-> TRUE, id |-> id, method |-> method, params |-> params,
     name |-> name, arguments |-> arguments]

\* a body that is valid JSON and no object, such as a list
NotAnObject ==
    [dict |-> FALSE, id |-> NoneNum, method |-> NoneValue,
     params |-> "absent", name |-> PyNone, arguments |-> NoArgs]

Messages ==
    { Message(i, m, "absent", PyNone, NoArgs) :
        i \in Ids,
        m \in {"initialize", "tools/list", "tools/call", "resources/list",
               NoneValue} }
    \cup { Message(i, "tools/call", "null", PyNone, NoArgs) : i \in Ids }
    \cup { Message(i, "tools/call", "dict", name, NoArgs) :
             i \in Ids, name \in NameValues }
    \cup { Message(i, "tools/call", "dict", PyStr(tool), a) :
             i \in Ids, tool \in {WebTool}, a \in ArgumentValues }
    \cup { Message(i, "tools/call", "dict", PyStr(RagTool), a) :
             i \in Ids, a \in {ArgsList, ArgsDict("str", <<"lego", "city">>,
                                                  NoneNum, NoneValue, FALSE)} }
    \cup { NotAnObject }

\* str(x) inside an f-string
format(x) ==
    CASE x.t = "none" -> "None"
      [] x.t = "str" -> x.s
      [] x.t = "int" -> "7"
      [] OTHER -> "[...]"

formatStr(s) == IF s = NoneValue THEN "None" ELSE s

\* hash(x) does not raise
Hashable(x) == x.t \notin {"list", "dict"}

(***************************** the responses *******************************)
ResultResponse(id, result) ==
    [jsonrpc |-> "2.0", id |-> id, keys |-> {"result"}, result |-> result,
     code |-> 0, message |-> ""]

ErrorResponse(id, code, message) ==
    [jsonrpc |-> "2.0", id |-> id, keys |-> {"error"}, result |-> PyNone,
     code |-> code, message |-> message]

NoResponseYet ==
    [jsonrpc |-> "", id |-> NoneNum, keys |-> {}, result |-> PyNone,
     code |-> 0, message |-> ""]

\* the response as the dict json.dumps is given
ResponsePy(r) ==
    PyDict(<<Item("jsonrpc", PyStr(r.jsonrpc)), Item("id", OptInt(r.id)),
             IF "result" \in r.keys THEN Item("result", r.result)
             ELSE Item("error",
                       PyDict(<<Item("code", PyInt(r.code)),
                                Item("message", PyStr(r.message))>>))>>)

create_sse_message(data) ==
    <<Tok("raw", "data: ", 0)>> \o json_dumps(ResponsePy(data))
       \o <<Tok("raw", "\n\n", 0)>>

\* the schemas are cut down to their type and title
Schema(title) ==
    PyDict(<<Item("type", PyStr("object")), Item("title", PyStr(title))>>)

MCP_TOOLS ==
    PyList(<<PyDict(<<Item("name", PyStr(WebTool)),
                      Item("description", PyStr("Perform a safe web search")),
                      Item("inputSchema", Schema("WebSearchInput")),
                      Item("outputSchema", Schema("WebSearchOutput"))>>),
             PyDict(<<Item("name", PyStr(RagTool)),
                      Item("description", PyStr("Query the local catalog")),
                      Item("inputSchema", Schema("RagSearchInput")),
                      Item("outputSchema", Schema("RagSearchOutput"))>>)>>)

\* what a handler ends with: a response it returns or an exception
HandlerReturn(response) ==
    [raised |-> FALSE, exc |-> NoneValue, response |-> response]

HandlerRaise(exc) ==
    [raised |-> TRUE, exc |-> exc, response |-> NoResponseYet]

\* what tool_functions[tool_name](**arguments) ends with, NoRun when the
\* handler does not come to it
NoRun == [kind |-> "none", value |-> PyNone, exc |-> NoneValue]

RunReturn(value) == [kind |-> "return", value |-> value, exc |-> NoneValue]

RunRaise(exc) == [kind |-> "raise", value |-> PyNone, exc |-> exc]

(****************************** the handlers *******************************)
handle_initialize(message) ==
    HandlerReturn(
      ResultResponse(message.id,
        PyDict(<<Item("protocolVersion", PyStr("2024-11-05")),
                 Item("capabilities", PyDict(<<Item("tools", PyDict(<<>>))>>)),
                 Item("serverInfo",
                      PyDict(<<Item("name",
                                    PyStr("customer-management-server")),
                               Item("version", PyStr("1.0.0"))>>))>>)))

handle_tools_list(message) ==
    HandlerReturn(ResultResponse(message.id,
                                 PyDict(<<Item("tools", MCP_TOOLS)>>)))

\* the keys of tool_functions
tool_functions == {RagTool, WebTool}

\* tool_name in tool_functions, for a tool_name that can be hashed
InToolFunctions(tool_name) ==
    tool_name.t = "str" /\ tool_name.s \in tool_functions

\* params.get("name") and params.get("arguments", {}) of a params dict
ToolNameOf(message) ==
    IF message.params = "absent" THEN PyNone ELSE message.name

ArgumentsOf(message) ==
    IF message.params = "absent" THEN NoArgs ELSE message.arguments

\* the try block of handle_tools_call left out: what the tool raises leaves
\* the handler
handle_tools_call_no_try(message, run) ==
    IF message.params = "null"
    THEN HandlerRaise("'NoneType' object has no attribute 'get'")
    ELSE IF ~Hashable(ToolNameOf(message))
    THEN HandlerRaise("unhashable type: 'list'")
    ELSE IF ~InToolFunctions(ToolNameOf(message))
    THEN HandlerReturn(
           ErrorResponse(message.id, -32601,
                         "Tool not found: " \o format(ToolNameOf(message))))
    ELSE IF run.kind = "raise"
    THEN HandlerRaise(run.exc)
    ELSE HandlerReturn(
           ResultResponse(message.id,
             PyDict(<<Item("content",
                           PyList(<<PyDict(<<Item("type", PyStr("text")),
                                             Item("text",
                                                  PyText(json_dumps(
                                                           run.value)))>>)>>)),
                      Item("structuredContent", run.value)>>)))

\* run is what tool_functions[tool_name](**arguments) ends with
handle_tools_call(message, run) ==
    IF message.params = "null"
    THEN HandlerRaise("'NoneType' object has no attribute 'get'")
    ELSE IF ~Hashable(ToolNameOf(message))
    THEN HandlerRaise("unhashable type: 'list'")
    ELSE IF ~InToolFunctions(ToolNameOf(message))
    THEN HandlerReturn(
           ErrorResponse(message.id, -32601,
                         "Tool not found: " \o format(ToolNameOf(message))))
    ELSE IF run.kind = "raise"
    THEN HandlerReturn(
           ErrorResponse(message.id, -32603,
                         "Tool execution error: " \o run.exc))
    ELSE HandlerReturn(
           ResultResponse(message.id,
             PyDict(<<Item("content",
                           PyList(<<PyDict(<<Item("type", PyStr("text")),
                                             Item("text",
                                                  PyText(json_dumps(
                                                           run.value)))>>)>>)),
                      Item("structuredContent", run.value)>>)))

process_mcp_message(message, run) ==
    IF message.method = "initialize" THEN handle_initialize(message)
    ELSE IF message.method = "tools/list" THEN handle_tools_list(message)
    ELSE IF message.method = "tools/call"
    THEN handle_tools_call(message, run)
    ELSE HandlerReturn(
           ErrorResponse(message.id, -32601,
                         "Method not found: " \o formatStr(message.method)))

\* the response generate() hands to create_sse_message
generate(message, run) ==
    IF ~message.dict
    THEN ErrorResponse(NoneNum, -32700,
                       "Parse error: 'list' object has no attribute 'get'")
    ELSE LET h == process_mcp_message(message, run)
         IN IF h.raised
            THEN ErrorResponse(NoneNum, -32700, "Parse error: " \o h.exc)
            ELSE h.response

\* The tool the handler looks up and calls, "none" when it does not come
\* to the call.
CalledTool(message) ==
    IF /\ message.dict
       /\ message.method = "tools/call"
       /\ message.params # "null"
       /\ Hashable(ToolNameOf(message))
       /\ InToolFunctions(ToolNameOf(message))
    THEN ToolNameOf(message).s
    ELSE "none"

\* f(**arguments) before the body of f runs: the TypeError of the call, or
\* None when the arguments bind. The catalog tool's parameters are not in
\* the source; a query alone is taken to bind.
BindError(tool, arguments) ==
    IF arguments.t = "list"
    THEN tool \o "() argument after ** must be a mapping, not list"
    ELSE IF arguments.t = "null"
    THEN tool \o "() argument after ** must be a mapping, not NoneType"
    ELSE IF arguments.extra
    THEN tool \o "() got an unexpected keyword argument 'limit'"
    ELSE IF arguments.query_t = "absent"
    THEN tool \o "() missing 1 required positional argument: 'query'"
    ELSE NoneValue

\* the call of web_search_tool the bound arguments make
WebCallOf(arguments) ==
    WebCalled(arguments.query,
              IF arguments.max_results = NoneNum THEN 5
              ELSE arguments.max_results,
              IF arguments.mode = NoneValue THEN "shopping"
              ELSE arguments.mode)

\* a result of the web tool as the dict it is
ResultPy(r) ==
    PyDict(<<Item("title", OptStr(r.title)), Item("url", OptStr(r.url)),
             Item("snippet", OptStr(r.snippet)),
             Item("price", OptStr(r.price)),
             Item("availability", OptStr(r.availability))>>
           \o IF "rating" \in DOMAIN r
              THEN <<Item("rating", OptFloat(r.rating)),
                     Item("rating_count", OptInt(r.rating_count))>>
              ELSE <<>>)

\* what the call of the web tool ended with
WebRun(out) ==
    IF out.kind = "raise" THEN RunRaise(out.exc)
    ELSE RunReturn(
           PyDict(<<Item("results",
                         PyList([i \in 1..Len(out.results) |->
                                   ResultPy(out.results[i])])),
                    Item("note", OptStr(out.note))>>))

\* What a call of the catalog tool can end with: matching items, none, or
\* an exception of the vector store.
RagRuns ==
    { RunReturn(PyDict(<<Item("results", PyList(<<>>))>>)),
      RunReturn(PyDict(<<Item("results",
          PyList(<<PyDict(<<Item("sku", PyStr("B00LEGO")),
                            Item("title", PyStr("lego city")),
                            Item("price", PyFloat(199)),
                            Item("rating", PyFloat(45)),
                            Item("brand", PyNone),
                            Item("doc_id", PyStr("doc-17"))>>)>>))>>)),
      RunRaise("Collection products does not exist.") }

(*************************** the server at work ****************************)
\* the connections that can be open at once, each served on its own thread
Slots == {1, 2}

NoWebCall == [WebCalled(<<>>, NoneNum, NoneValue) EXCEPT !.pc = "none"]

\* a connection with no request in hand
IdleSlot ==
    [pc |-> "idle", message |-> NotAnObject, before |-> FALSE,
     invoked |-> "none", web |-> NoWebCall, run |-> NoRun,
     response |-> NoResponseYet, sent |-> <<>>]

\* what the API can answer a call made through the server with
ServerRawLists ==
    { l \in RawLists :
        TitlesOf(l) \in {<<>>, <<"B", "C", "A">>, <<"F", "D">>} }

\* the message generate() of connection s works on: the local of its own
\* mcp_endpoint call
request_message_shared(s) ==
    IF \E o \in Slots \ {s} : srv.slots[o].pc # "idle"
    THEN srv.slots[CHOOSE o \in Slots \ {s} : srv.slots[o].pc # "idle"].message
    ELSE srv.slots[s].message

request_message(s) == srv.slots[s].message

ServerInit ==
    /\ PipelineAtRest
    /\ SERPER_API_KEY \in {NoneValue, "serper-key"}
    /\ web = <<>>
    /\ srv = [slots |-> [s \in Slots |-> IdleSlot], initialized |-> FALSE]
    /\ idx = <<>>

\* mcp_endpoint up to the Response: the body is read, generate() has not
\* run yet
Receive(s) ==
    /\ srv.slots[s].pc = "idle"
    /\ \E m \in Messages :
          srv' = [srv EXCEPT !.slots[s] =
                     [IdleSlot EXCEPT !.pc = "received", !.message = m,
                                      !.before = srv.initialized]]
    /\ UNCHANGED <<pipeVars, SERPER_API_KEY, web, idx>>

\* generate() without its except branch: when the processing raises, the
\* stream ends with no message
RespondedUnlessRaised(s, slot, run) ==
    LET m == request_message(s)
        response == generate(m, run)
        failed == ~m.dict \/ process_mcp_message(m, run).raised
    IN [srv EXCEPT
          !.slots[s] = [slot EXCEPT !.pc = "sent", !.run = run,
                                    !.response = response,
                                    !.sent = IF failed THEN slot.sent
                                             ELSE Append(slot.sent,
                                               create_sse_message(response))],
          !.initialized = srv.initialized
                            \/ (m.dict /\ m.method = "initialize")]

\* generate() from the tool's outcome to the message it yields
Responded(s, slot, run) ==
    LET m == request_message(s)
        response == generate(m, run)
    IN [srv EXCEPT
          !.slots[s] = [slot EXCEPT !.pc = "sent", !.run = run,
                                    !.response = response,
                                    !.sent = Append(slot.sent,
                                               create_sse_message(response))],
          !.initialized = srv.initialized
                            \/ (m.dict /\ m.method = "initialize")]

\* generate() runs: to its end, or into the tool up to the request the tool
\* posts to the search API
Generate(s) ==
    LET slot == srv.slots[s]
        m == request_message(s)
        tool == CalledTool(m)
        arguments == ArgumentsOf(m)
    IN /\ slot.pc = "received"
       /\ IF tool = "none"
          THEN srv' = Responded(s, slot, NoRun)
          ELSE IF BindError(tool, arguments) # NoneValue
          THEN srv' = Responded(s, slot, RunRaise(BindError(tool, arguments)))
          ELSE IF tool = RagTool
          THEN \E run \in RagRuns :
                  srv' = Responded(s, [slot EXCEPT !.invoked = tool], run)
          ELSE IF arguments.query_t # "str"
          THEN srv' = Responded(s, [slot EXCEPT !.invoked = tool],
                         RunRaise("expected string or bytes-like object"))
          ELSE LET w == WebStart(SERPER_API_KEY, WebCallOf(arguments))
               IN IF w.pc = "done"
                  THEN srv' = Responded(s, [slot EXCEPT !.invoked = tool,
                                                       !.web = w],
                                        WebRun(w.out))
                  ELSE srv' = [srv EXCEPT !.slots[s] =
                                  [slot EXCEPT !.pc = "api", !.invoked = tool,
                                               !.web = w]]
       /\ UNCHANGED <<pipeVars, SERPER_API_KEY, web, idx>>

\* the tool's request is over with answer api; the tool and generate() run
\* to their end
ApiDone(s, api) ==
    LET slot == srv.slots[s]
        w == WebFinish(SERPER_API_KEY, slot.web, api)
    IN /\ slot.pc = "api"
       /\ srv' = Responded(s, [slot EXCEPT !.web = w], WebRun(w.out))
       /\ UNCHANGED <<pipeVars, SERPER_API_KEY, web, idx>>

SrvApiRespond(s) == \E data \in ServerRawLists : ApiDone(s, ApiJson(data))

SrvApiFail(s) == ApiDone(s, ApiStatusError)

SrvApiTimeout(s) ==
    /\ srv.slots[s].web.request.timeout > 0
    /\ ApiDone(s, ApiTimedOut)

\* the event stream is over and the connection can take its next request
Close(s) ==
    /\ srv.slots[s].pc = "sent"
    /\ srv' = [srv EXCEPT !.slots[s] = IdleSlot]
    /\ UNCHANGED <<pipeVars, SERPER_API_KEY, web, idx>>

ServerNext ==
    \/ \E s \in Slots : Receive(s)
    \/ \E s \in Slots : Generate(s)
    \/ \E s \in Slots : SrvApiRespond(s)
    \/ \E s \in Slots : SrvApiFail(s)
    \/ \E s \in Slots : SrvApiTimeout(s)
    \/ \E s \in Slots : Close(s)

ServerSpec == ServerInit /\ [][ServerNext]_vars

\* One connection alone, the other never opened.
LoneNext ==
    \/ Receive(1)
    \/ Generate(1)
    \/ SrvApiRespond(1)
    \/ SrvApiFail(1)
    \/ SrvApiTimeout(1)
    \/ Close(1)

\* The thread of the connection runs, and a request to the search API that
\* gets no answer runs into the client's timeout; that the API answers is
\* not assumed.
FairServerSpec ==
    /\ ServerInit
    /\ [][LoneNext]_vars
    /\ WF_vars(Generate(1))
    /\ WF_vars(SrvApiTimeout(1))

(***************************************************************************)
(*                      The claims on the tool server                      *)
(***************************************************************************)
\* connection s has sent the response to the request it holds
Sent(s) == srv.slots[s].pc = "sent"

\* the request names no method of the server, or is a tools/call whose
\* tool name is not exactly one of the two tools
UnknownMethodOrTool(m) ==
    /\ m.dict
    /\ \/ m.method \notin {"initialize", "tools/list", "tools/call"}
       \/ /\ m.method = "tools/call"
          /\ ToolNameOf(m) \notin {PyStr(RagTool), PyStr(WebTool)}

\* C11: a request whose method is none of initialize, tools/list and
\* tools/call, and a tools/call whose tool name is not exactly
\* rag_search_tool or web_search_tool, is answered with an error of code
\* -32601, and no tool implementation is invoked for it.
C11_UnknownIsNotFound ==
    \A s \in Slots :
        (Sent(s) /\ UnknownMethodOrTool(srv.slots[s].message)) =>
            /\ srv.slots[s].response.keys = {"error"}
            /\ srv.slots[s].response.code = -32601
            /\ srv.slots[s].invoked = "none"

\* C12: a tools/call naming a known tool whose invocation raises (the tool
\* raises or the arguments are malformed) is answered with an error of
\* code -32603 whose message holds the exception's message; the exception
\* does not leave the handler and exactly one response is sent.
C12_ToolErrorIsStructured ==
    \A s \in Slots :
        (/\ Sent(s)
         /\ CalledTool(srv.slots[s].message) # "none"
         /\ srv.slots[s].run.kind = "raise") =>
            /\ srv.slots[s].response.keys = {"error"}
            /\ srv.slots[s].response.code = -32603
            /\ srv.slots[s].response.message =
                  "Tool execution error: " \o srv.slots[s].run.exc
            /\ srv.slots[s].response.id = srv.slots[s].message.id
            /\ Len(srv.slots[s].sent) = 1

C12_Witness ==
    /\ Sent(1)
    /\ Sent(2)
    /\ srv.slots[1].message.name = PyStr(WebTool)
    /\ srv.slots[1].message.arguments = ArgsList
    /\ srv.slots[1].invoked = "none"
    /\ srv.slots[1].response.code = -32603
    /\ srv.slots[2].invoked = RagTool
    /\ srv.slots[2].run.kind = "raise"
    /\ srv.slots[2].response.code = -32603

\* connection s holds a tools/call that comes to call the web search tool
WebCallInHand(s) ==
    /\ srv.slots[s].pc \in {"received", "api"}
    /\ CalledTool(srv.slots[s].message) = WebTool

C14_TextDecodesToStructured ==
    \A s \in Slots :
        (Sent(s) /\ srv.slots[s].run.kind = "return") =>
            LET response == srv.slots[s].response
                content == DictGet(response.result.v, "content")
                structured == DictGet(response.result.v, "structuredContent")
            IN /\ response.keys = {"result"}
               /\ structured = srv.slots[s].run.value
               /\ content.t = "list"
               /\ Len(content.v) = 1
               /\ DictGet(content.v[1].v, "type") = PyStr("text")
               /\ json_loads(DictGet(content.v[1].v, "text").v) = structured

C14_Witness ==
    /\ Sent(1)
    /\ srv.slots[1].invoked = WebTool
    /\ srv.slots[1].run.kind = "return"
    /\ TitlesOf(srv.slots[1].web.out.results) = <<"A", "C", "B">>
    /\ json_loads(DictGet(DictGet(srv.slots[1].response.result.v,
                                  "content").v[1].v, "text").v)
          = WebRun(srv.slots[1].web.out).value

\* C15: the response to a request depends on that request and on the
\* outcome of the tool it invoked alone: it is the response the request
\* gets when it is served alone, whatever was served before (an initialize
\* or none) and whatever the other connection does meanwhile.
C15_Stateless ==
    /\ \A s \in Slots :
          Sent(s) =>
             /\ srv.slots[s].response =
                   generate(srv.slots[s].message, srv.slots[s].run)
             /\ srv.slots[s].sent =
                   <<create_sse_message(srv.slots[s].response)>>
    /\ \A s, o \in Slots :
          (/\ Sent(s)
           /\ Sent(o)
           /\ srv.slots[s].message = srv.slots[o].message
           /\ srv.slots[s].run = srv.slots[o].run) =>
              srv.slots[s].response = srv.slots[o].response

C15_Witness ==
    /\ Sent(1)
    /\ Sent(2)
    /\ srv.slots[1].message.method = "tools/call"
    /\ srv.slots[1].message = srv.slots[2].message
    /\ srv.slots[1].run = srv.slots[2].run
    /\ srv.slots[1].run.kind = "return"
    /\ srv.slots[1].invoked = WebTool
    /\ ~srv.slots[1].before
    /\ srv.slots[2].before
    /\ srv.slots[1].response = srv.slots[2].response

(***************************************************************************)
(* build_index.py: the offline build of the vector collection              *)
(*                                                                         *)
(* A row of the parquet file has an id, a price and a rating; the text     *)
(* columns are copied as they are and are left out. A cell is a number, a  *)
(* text that is no number, or missing. Prices are counted in cents and     *)
(* ratings in tenths. The store is the persisted database: the collection  *)
(* exists or not, and holds the entries added so far.                      *)
(***************************************************************************)
MaxRows == 3      \* rows of the parquet file

BATCH_SIZE == 2   \* 256 in the script, scaled to the rows of the model

Cell(kind, n) == [kind |-> kind, n |-> n]

\* a number, a text that reads as a number ("5.00"), a text that does not
\* ("N/A"), nothing
PriceCells ==
    {Cell("num", 1999), Cell("numstr", 500), Cell("text", 0), Cell("none", 0)}

RatingCells == {Cell("num", 45), Cell("none", 0)}

RowIds == <<"p1", "p2", "p3", "p4", "p5">>

\* the frames pd.read_parquet can hand over: row i has the i-th id
Frames ==
    UNION { [1..n -> PriceCells \X RatingCells] : n \in 0..MaxRows }

RowsOf(frame) ==
    [i \in 1..Len(frame) |->
        [id |-> RowIds[i], price |-> frame[i][1], rating |-> frame[i][2]]]

\* pd.to_numeric(errors="coerce") on one cell
to_numeric(cell) ==
    IF cell.kind \in {"num", "numstr"} THEN [nan |-> FALSE, n |-> cell.n]
    ELSE [nan |-> TRUE, n |-> 0]

RECURSIVE SelectPriced(_)
SelectPriced(rows) ==
    IF rows = <<>> THEN <<>>
    ELSE IF Head(rows).price.nan THEN SelectPriced(Tail(rows))
    ELSE <<Head(rows)>> \o SelectPriced(Tail(rows))

\* the coercion alone, the rows without a price kept
load_frame_keep_all(rows) ==
    [i \in 1..Len(rows) |->
        [id |-> rows[i].id, price |-> to_numeric(rows[i].price),
         rating |-> to_numeric(rows[i].rating)]]

\* the frame after the coercion of price and rating and the drop of the
\* rows without a price
load_frame(rows) ==
    SelectPriced([i \in 1..Len(rows) |->
                    [id |-> rows[i].id, price |-> to_numeric(rows[i].price),
                     rating |-> to_numeric(rows[i].rating)]])

\* the metadata of one row of the frame
meta(row) ==
    [id |-> row.id,
     price |-> IF ~row.price.nan THEN row.price.n ELSE 0,
     rating |-> IF ~row.rating.nan THEN row.rating.n ELSE 0]

metadatas(df) == [i \in 1..Len(df) |-> meta(df[i])]

\* the collection a build of these rows ends with
BuiltItems(rows) == metadatas(load_frame(rows))

\* the collection the last build left behind
OldItems ==
    <<[id |-> "p1", price |-> 999, rating |-> 40],
      [id |-> "p9", price |-> 2500, rating |-> 0]>>

NoCollection == [exists |-> FALSE, items |-> <<>>]

Collection(items) == [exists |-> TRUE, items |-> items]

\* what a reader got from the store: nothing read yet, no such collection,
\* or the entries it found
NotRead == [kind |-> "none", items |-> <<>>]

ReadOf(store) ==
    IF store.exists THEN [kind |-> "items", items |-> store.items]
    ELSE [kind |-> "missing", items |-> <<>>]

IndexInit ==
    /\ PipelineAtRest
    /\ SERPER_API_KEY = NoneValue
    /\ web = <<>>
    /\ srv = <<>>
    /\ \E frame \in Frames :
          idx = [pc |-> "start", rows |-> RowsOf(frame), df |-> <<>>,
                 start |-> 0, store |-> Collection(OldItems),
                 seen |-> NotRead, during |-> "none"]

\* pd.read_parquet up to the features column
Load ==
    /\ idx.pc = "start"
    /\ idx' = [idx EXCEPT !.pc = "loaded", !.df = load_frame(idx.rows)]
    /\ UNCHANGED <<pipeVars, SERPER_API_KEY, web, srv>>

\* client.reset()
Reset ==
    /\ idx.pc = "loaded"
    /\ idx' = [idx EXCEPT !.pc = "reset", !.store = NoCollection]
    /\ UNCHANGED <<pipeVars, SERPER_API_KEY, web, srv>>

\* client.create_collection and the lists of texts, ids and metadatas
Create ==
    /\ idx.pc = "reset"
    /\ idx' = [idx EXCEPT !.pc = "adding", !.store = Collection(<<>>),
                          !.start = 0]
    /\ UNCHANGED <<pipeVars, SERPER_API_KEY, web, srv>>

\* one round of the batch loop: collection.add of metadatas[start:end]
AddBatch ==
    /\ idx.pc = "adding"
    /\ idx.start < Len(idx.df)
    /\ LET end == idx.start + BATCH_SIZE
           batch_metas == SubSeq(metadatas(idx.df), idx.start + 1,
                                 Min2(end, Len(idx.df)))
       IN idx' = [idx EXCEPT !.store = Collection(idx.store.items
                                                    \o batch_metas),
                             !.start = end]
    /\ UNCHANGED <<pipeVars, SERPER_API_KEY, web, srv>>

\* the loop is over
Finish ==
    /\ idx.pc = "adding"
    /\ idx.start >= Len(idx.df)
    /\ idx' = [idx EXCEPT !.pc = "done"]
    /\ UNCHANGED <<pipeVars, SERPER_API_KEY, web, srv>>

\* A query-time reader opens the collection and reads it, at any moment
\* of the build.
Read ==
    /\ idx' = [idx EXCEPT !.seen = ReadOf(idx.store), !.during = idx.pc]
    /\ UNCHANGED <<pipeVars, SERPER_API_KEY, web, srv>>

IndexNext ==
    \/ Load
    \/ Reset
    \/ Create
    \/ AddBatch
    \/ Finish
    \/ Read

IndexSpec == IndexInit /\ [][IndexNext]_vars

\* C16: while a rebuild runs, a reader of the collection sees the complete
\* old collection or the complete new one, never a missing, an empty or a
\* partly filled one.
C16_ReaderSeesCompleteIndex ==
    idx.seen.kind # "none" =>
        /\ idx.seen.kind = "items"
        /\ idx.seen.items \in {OldItems, BuiltItems(idx.rows)}

(***************************************************************************)
(*                 Further claims on the web search tool                   *)
(***************************************************************************)
\* C21: web_search_tool returns at most the requested count: for every
\* query, mode and max_results the results list is no longer than
\* max_results, and no longer than 10, the bound on the cap. Stated for a
\* max_results of 1 or more.
C21_AtMostRequested ==
    (WebReturned /\ web.max_results >= 1) =>
        /\ Len(web.out.results) <= web.max_results
        /\ Len(web.out.results) <= 10

(***************************************************************************)
(*                    Further claims on the index build                    *)
(***************************************************************************)
\* the cell reads as a number
Parses(cell) == cell.kind \in {"num", "numstr"}

IndexedIds == {idx.store.items[i].id : i \in 1..Len(idx.store.items)}

\* C22: after a build the indexed ids are exactly the ids of the input
\* rows whose price parses as a number: a row with an unparseable price is
\* not indexed, and a row with a missing or unparseable rating is indexed
\* with metadata rating 0.0.
C22_IndexedIffPriced ==
    idx.pc = "done" =>
        /\ idx.store.exists
        /\ IndexedIds = {idx.rows[i].id :
                           i \in {j \in 1..Len(idx.rows) :
                                    Parses(idx.rows[j].price)}}
        /\ Len(idx.store.items) = Cardinality(IndexedIds)
        /\ \A i \in 1..Len(idx.rows) :
              ~Parses(idx.rows[i].price) => idx.rows[i].id \notin IndexedIds
        /\ \A i \in 1..Len(idx.rows) :
              (Parses(idx.rows[i].price) /\ ~Parses(idx.rows[i].rating)) =>
                 \E k \in 1..Len(idx.store.items) :
                    /\ idx.store.items[k].id = idx.rows[i].id
                    /\ idx.store.items[k].rating = 0

C22_Witness ==
    /\ idx.pc = "done"
    /\ Len(idx.rows) = 3
    /\ idx.rows[1].price.kind = "text"
    /\ idx.rows[2].price.kind = "numstr"
    /\ idx.rows[2].rating.kind = "none"
    /\ idx.rows[3].price.kind = "num"
    /\ idx.rows[3].rating.kind = "num"
    /\ Len(idx.store.items) = 2
    /\ idx.store.items[1] = [id |-> "p2", price |-> 500, rating |-> 0]
    /\ idx.store.items[2] = [id |-> "p3", price |-> 1999, rating |-> 45]

(***************************************************************************)
(*                  Further claims on the Retriever stage                  *)
(***************************************************************************)
\* C23: the Retriever stage returns knowledge and retrieved_context only
\* when every tool call it issued has completed: while a call is
\* outstanding the stage has returned nothing, once it has returned no
\* call completes or changes any more, and the response of every issued
\* call stands in retrieved_context, in whatever order the catalog and the
\* web calls completed.
C23_ReturnsAfterAllToolCalls ==
    /\ []((\E i \in 1..Len(calls) : ~calls[i].done) =>
             /\ status["Retriver"] = "running"
             /\ writes["Retriver"] = NoUpdate)
    /\ [](status["Retriver"] = "returned" =>
             /\ Len(writes["Retriver"].vals.retrieved_context) = Len(calls)
             /\ \A i \in 1..Len(calls) :
                   /\ calls[i].done
                   /\ \E k \in 1..Len(calls) :
                         writes["Retriver"].vals.retrieved_context[k] =
                            calls[i].payload)
    /\ [][status["Retriver"] # "running" => calls' = calls]_vars

C23_Witness ==
    /\ status["Retriver"] = "returned"
    /\ Len(calls) = 2
    /\ calls[1].tool = RagTool
    /\ calls[2].tool = WebTool
    /\ "knowledge" \in writes["Retriver"].keys
    /\ "retrieved_context" \in writes["Retriver"].keys
    /\ writes["Retriver"].vals.retrieved_context =
          <<calls[1].payload, calls[2].payload>>

(***************************************************************************)
(*                   Further claims on the tool server                     *)
(***************************************************************************)
\* C24: every response carries the id of the request it answers: for a
\* request with id i the response's id is i, whether the request succeeds
\* or fails with -32601, -32603 or -32700.
C24_ResponseCarriesRequestId ==
    \A s \in Slots :
        (Sent(s) /\ srv.slots[s].message.dict) =>
            srv.slots[s].response.id = srv.slots[s].message.id

\* the keys of a dict
DictKeys(x) == {x.v[i].k : i \in 1..Len(x.v)}

\* the JSON value of an event-stream message: what stands between "data: "
\* and the blank line
SseBody(sse) == json_loads(SubSeq(sse, 2, Len(sse) - 1))

\* the processing of the message raised
ProcessingFailed(s) ==
    \/ ~srv.slots[s].message.dict
    \/ process_mcp_message(srv.slots[s].message, srv.slots[s].run).raised

\* C25: for every message body the endpoint accepts, exactly one response
\* message is sent, holding exactly one of result and error; when the
\* processing fails it is a single -32700 error message, not none and not
\* two.
C25_ExactlyOneResponse ==
    \A s \in Slots :
        /\ srv.slots[s].pc \in {"idle", "received", "api"} =>
              srv.slots[s].sent = <<>>
        /\ Sent(s) =>
              /\ Len(srv.slots[s].sent) = 1
              /\ srv.slots[s].sent[1][1] = Tok("raw", "data: ", 0)
              /\ SseBody(srv.slots[s].sent[1]).t = "dict"
              /\ Cardinality(DictKeys(SseBody(srv.slots[s].sent[1]))
                               \cap {"result", "error"}) = 1
              /\ Cardinality(srv.slots[s].response.keys) = 1
              /\ ProcessingFailed(s) =>
                    /\ "error" \in DictKeys(SseBody(srv.slots[s].sent[1]))
                    /\ DictGet(DictGet(SseBody(srv.slots[s].sent[1]).v,
                                       "error").v, "code") = PyInt(-32700)

C25_Witness ==
    /\ Sent(1)
    /\ Sent(2)
    /\ ProcessingFailed(1)
    /\ srv.slots[1].message.params = "null"
    /\ Len(srv.slots[1].sent) = 1
    /\ srv.slots[1].response.code = -32700
    /\ ~ProcessingFailed(2)
    /\ srv.slots[2].run.kind = "return"
    /\ Len(srv.slots[2].sent) = 1
    /\ "result" \in DictKeys(SseBody(srv.slots[2].sent[1]))
====
